---- MODULE Spec2Model ----
(***************************************************************************)
(* Model of the DieselFilter derive macro (query/src/lib.rs) and of the    *)
(* code it generates.                                                      *)
(*                                                                         *)
(*   Spec       the macro expansion `filter`: table-name lookup,           *)
(*              pagination scan, field collection, member and predicate    *)
(*              synthesis, emission                                        *)
(*   SpecOpts   FilterOpts::from over lists of nested meta items           *)
(*   SpecType   FilterableType::from and the conversion into an Ident      *)
(*   SpecLike   the Single/Substring predicate on text values              *)
(*   SpecQuery  the generated `filter` / `filtered` functions at run time  *)
(***************************************************************************)
EXTENDS Integers, Sequences, FiniteSets, TLC

VARIABLES
    \* ---- macro expansion (Spec)
    pc,            \* position in `filter`
    attrs,         \* input.attrs, the record-level attributes
    data,          \* shape of input.data
    table_name,    \* <<ident>> once found, <<>> before
    pagination,    \* the `pagination` flag
    nfields,       \* number of fields.named already iterated
    annotated,     \* some iterated field carried a filter attribute that is not skipped
    skipped,       \* some iterated field carried a filter attribute that is skipped
    filters,       \* Vec<Filter>
    fields,        \* members pushed for the Filter Input struct
    queries,       \* the `if let Some(..)` blocks pushed
    has_multiple,
    uses,
    k,             \* index of the `for filter in filters` loop
    expanded,      \* the emitted token stream, <<>> before emission
    outcome,       \* "running", "ok", or the panic message
    \* ---- FilterOpts::from (SpecOpts)
    opc, ometa, oopts,
    \* ---- type classification (SpecType)
    tpc, tty, tcat, tident,
    \* ---- LIKE predicate (SpecLike)
    lpc, lfield, lvalue, lpattern, lresult,
    \* ---- generated functions (SpecQuery)
    qpc, qgen, qinput, qi, query, qresult

genVars   == <<pc, attrs, data, table_name, pagination, nfields, annotated, skipped, filters,
               fields, queries, has_multiple, uses, k, expanded, outcome>>
optsVars  == <<opc, ometa, oopts>>
typeVars  == <<tpc, tty, tcat, tident>>
likeVars  == <<lpc, lfield, lvalue, lpattern, lresult>>
queryVars == <<qpc, qgen, qinput, qi, query, qresult>>
vars      == <<genVars, optsVars, typeVars, likeVars, queryVars>>
nonGenVars   == <<optsVars, typeVars, likeVars, queryVars>>
nonOptsVars  == <<genVars, typeVars, likeVars, queryVars>>
nonTypeVars  == <<genVars, optsVars, likeVars, queryVars>>
nonLikeVars  == <<genVars, optsVars, typeVars, queryVars>>
nonQueryVars == <<genVars, optsVars, typeVars, likeVars>>

(***************************************************************************)
(* Bounds                                                                  *)
(***************************************************************************)
MaxRecAttrs == 2
MaxFields == 2
MaxNested == 3
MaxDepth == 1
MaxStr == 2
MaxMembers == 2

----------------------------------------------------------------------------
(***************************************************************************)
(* Small helpers                                                           *)
(***************************************************************************)
SeqsUpTo(S, n) == UNION {[1..m -> S] : m \in 0..n}

Range(s) == {s[i] : i \in 1..Len(s)}

----------------------------------------------------------------------------
(***************************************************************************)
(* Tokens.  A rendered type is a sequence of tokens; " " is the blank that *)
(* to_string() puts between tokens.                                        *)
(***************************************************************************)
Punct == {"::", "<", ">", "=", ",", "(", ")", " "}

IsIdentToken(t) == t \notin Punct

----------------------------------------------------------------------------
(***************************************************************************)
(* enum FilterKind, struct FilterOpts                                      *)
(***************************************************************************)
FilterKind == {"Basic", "Substr", "Insensitive", "SubstrInsensitive"}

FilterOptsDefault == [multiple |-> FALSE, kind |-> "Basic"]

\* NestedMeta: Meta(path ...) or Lit
NestedItem(kind, ident) == [kind |-> kind, ident |-> ident]

\* the filter_map of lines 45-51: the paths of the Meta items, literals dropped
MetaPaths(m) ==
    LET RECURSIVE Go(_)
        Go(s) == IF s = <<>> THEN <<>>
                 ELSE IF Head(s).kind = "meta" THEN <<Head(s).ident>> \o Go(Tail(s))
                 ELSE Go(Tail(s))
    IN Go(m)

\* mutant of matches: `any` in place of `all` over the tested keywords
matchesAny(m, tested) == \E t \in tested : \E i \in 1..Len(m) : m[i] = t

\* the closure `matches`: every tested keyword is the ident of some path
matches(m, tested) == \A t \in tested : \E i \in 1..Len(m) : m[i] = t

FilterOptsFrom(m) ==
    LET meta == MetaPaths(m)
        kind == IF matches(meta, {"substring", "insensitive"}) THEN "SubstrInsensitive"
                ELSE IF matches(meta, {"substring"}) THEN "Substr"
                ELSE IF matches(meta, {"insensitive"}) THEN "Insensitive"
                ELSE "Basic"
    IN [multiple |-> matches(meta, {"multiple"}), kind |-> kind]

----------------------------------------------------------------------------
(***************************************************************************)
(* Types.  A Type::Path is [kind |-> "path", segs, args]: the path's       *)
(* segments and the generic arguments of its last segment (<<>> or one     *)
(* type).  Any other syn::Type is [kind |-> "other", ...].                 *)
(***************************************************************************)
TyPath(segs, args) == [kind |-> "path", segs |-> segs, args |-> args]
TyOther == [kind |-> "other", segs |-> <<>>, args |-> <<>>]

RECURSIVE JoinSegs(_)
JoinSegs(segs) ==
    IF Len(segs) = 1 THEN <<segs[1]>>
    ELSE <<segs[1], " ", "::", " ">> \o JoinSegs(Tail(segs))

\* ty.to_token_stream().to_string()
RECURSIVE Render(_)
Render(ty) ==
    IF ty.args = <<>> THEN JoinSegs(ty.segs)
    ELSE JoinSegs(ty.segs) \o <<" ", "<", " ">> \o Render(ty.args[1]) \o <<" ", ">">>

\* .replace(' ', "")
StripSpaces(s) == SelectSeq(s, LAMBDA c : c # " ")

Category(tag, raw) == [tag |-> tag, raw |-> raw]

FilterableTypeFrom(ty) ==
    LET s == StripSpaces(Render(ty)) IN
    CASE s = <<"String">>                              -> Category("String", <<>>)
      [] s = <<"Uuid">>                                -> Category("Uuid", <<>>)
      [] s = <<"uuid", "::", "Uuid">>                  -> Category("Uuid", <<>>)
      [] s = <<"Option", "<", "String", ">">>          -> Category("String", <<>>)
      [] s = <<"Option", "<", "Uuid", ">">>            -> Category("Uuid", <<>>)
      [] s = <<"Option", "<", "uuid", "::", "Uuid", ">">> -> Category("Uuid", <<>>)
      [] OTHER                                         -> Category("Foreign", s)

\* Ident::new(s, ..) panics unless s is one identifier
IdentNewOk(s) == Len(s) = 1 /\ IsIdentToken(s[1])

\* impl From<FilterableType> for Ident: the string handed to Ident::new
IdentSource(cat) ==
    CASE cat.tag = "String" -> <<"String">>
      [] cat.tag = "Uuid"   -> <<"Uuid">>
      [] OTHER              -> cat.raw

----------------------------------------------------------------------------
(***************************************************************************)
(* Record-level attributes: [path, args], args being the tokens between    *)
(* the attribute's parentheses.                                            *)
(***************************************************************************)
Attr(path, args) == [path |-> path, args |-> args]

RecordAttrs ==
    { Attr("diesel", <<"table_name", "=", "users">>),
      Attr("diesel", <<"table_name", "=", "users", ",", "primary_key", "(", "id", ")">>),
      Attr("diesel", <<"primary_key", "(", "id", ")">>),
      Attr("table_name", <<"=", "users">>),
      Attr("pagination", <<>>) }

\* mutant of TableNameParse: tokens after the table's identifier are accepted
TableNameParseLoose(args) ==
    IF Len(args) < 1 \/ ~IsIdentToken(args[1]) THEN <<>>
    ELSE IF args[1] # "table_name" THEN <<>>
    ELSE IF Len(args) < 2 \/ args[2] # "=" THEN <<>>
    ELSE IF Len(args) < 3 \/ ~IsIdentToken(args[3]) THEN <<>>
    ELSE <<args[3]>>

\* impl Parse for TableName, run by Attribute::parse_args, which also rejects
\* tokens left over after the parser returns.  <<name>> on success, <<>> on Err.
TableNameParse(args) ==
    IF Len(args) < 1 \/ ~IsIdentToken(args[1]) THEN <<>>
    ELSE IF args[1] # "table_name" THEN <<>>
    ELSE IF Len(args) < 2 \/ args[2] # "=" THEN <<>>
    ELSE IF Len(args) < 3 \/ ~IsIdentToken(args[3]) THEN <<>>
    ELSE IF Len(args) > 3 THEN <<>>
    ELSE <<args[3]>>

\* lines 117-123: the first diesel attribute whose arguments parse
RECURSIVE FindTableName(_)
FindTableName(as) ==
    IF as = <<>> THEN <<>>
    ELSE IF Head(as).path = "diesel" /\ TableNameParse(Head(as).args) # <<>>
         THEN TableNameParse(Head(as).args)
    ELSE FindTableName(Tail(as))

\* lines 128-133
HasPagination(as) == \E i \in 1..Len(as) : as[i].path = "pagination"

(***************************************************************************)
(* Field attributes: [path, form, nested]; form is what parse_meta gives:  *)
(* "Path", "List" (with its nested items), "NameValue", or "Err".          *)
(***************************************************************************)
FAttr(path, form, nested) == [path |-> path, form |-> form, nested |-> nested]

Kw(w) == NestedItem("meta", w)

FilterPath == FAttr("filter", "Path", <<>>)
FilterList(ws) == FAttr("filter", "List", ws)
FilterNameValue == FAttr("filter", "NameValue", <<>>)
FilterErr == FAttr("filter", "Err", <<>>)
SerdeAttr == FAttr("serde", "List", <<Kw("default")>>)

FieldAttrLists ==
    { <<>>, <<SerdeAttr>>, <<FilterPath>>, <<FilterNameValue>>, <<FilterErr>>,
      <<FilterList(<<Kw("multiple")>>)>>,
      <<FilterList(<<Kw("substring")>>)>>,
      <<FilterList(<<Kw("insensitive")>>)>>,
      <<FilterList(<<Kw("substring"), Kw("insensitive")>>)>>,
      <<FilterList(<<Kw("multiple"), Kw("substring")>>)>>,
      <<FilterList(<<Kw("insensitive"), Kw("multiple")>>)>>,
      <<FilterList(<<Kw("insensitive"), Kw("multiple"), Kw("substring")>>)>>,
      <<FilterList(<<Kw("exact")>>)>>,
      <<FilterPath, FilterPath>>,
      <<FilterPath, FilterList(<<Kw("multiple")>>)>>,
      <<FilterNameValue, FilterPath>>,
      <<SerdeAttr, FilterList(<<Kw("substring")>>)>> }

FieldTypes ==
    { TyPath(<<"String">>, <<>>),
      TyPath(<<"Option">>, <<TyPath(<<"String">>, <<>>)>>),
      TyPath(<<"uuid", "Uuid">>, <<>>),
      TyPath(<<"i32">>, <<>>),
      TyPath(<<"Option">>, <<TyPath(<<"i32">>, <<>>)>>),
      TyOther }

\* the identifiers of the record's fields, in declaration order
FieldNames == <<"name", "page", "tags", "id", "email">>

Filter(name, ty, opts) == [name |-> name, ty |-> ty, opts |-> opts]

\* mutant of AttrOpts: a name-value attribute is taken as a bare marker
AttrOptsNoSkip(a) ==
    CASE a.form = "List" -> <<FilterOptsFrom(a.nested)>>
      [] OTHER           -> <<FilterOptsDefault>>

\* lines 148-154: the options of one filter attribute, <<opts>>, or <<>> when
\* the attribute is skipped
AttrOpts(a) ==
    CASE a.form = "List" -> <<FilterOptsFrom(a.nested)>>
      [] a.form = "Path" -> <<FilterOptsDefault>>
      [] OTHER           -> <<>>

\* lines 144-164: the loop over one field's attributes.  The result is
\* [panic, filters]: the panic message ("" when none) and the filters pushed.
RECURSIVE CollectAttrs(_, _, _, _)
CollectAttrs(name, ty, as, acc) ==
    IF as = <<>> THEN [panic |-> "", filters |-> acc]
    ELSE LET a == Head(as) IN
         IF a.path # "filter" THEN CollectAttrs(name, ty, Tail(as), acc)
         ELSE IF a.form = "Err" THEN [panic |-> "unwrap on Err", filters |-> acc]
         ELSE IF AttrOpts(a) = <<>> THEN CollectAttrs(name, ty, Tail(as), acc)
         ELSE IF ty.kind = "path"
              THEN CollectAttrs(name, ty, Tail(as),
                       Append(acc, Filter(name, FilterableTypeFrom(ty), AttrOpts(a)[1])))
         ELSE [panic |-> "this type is not supported", filters |-> acc]

\* a filter attribute in the form line 153 skips
Skipped(as) == \E i \in 1..Len(as) : as[i].path = "filter" /\ as[i].form = "NameValue"

\* a filter attribute in a form that is not skipped
Usable(as) == \E i \in 1..Len(as) : as[i].path = "filter" /\ as[i].form # "NameValue"

----------------------------------------------------------------------------
(***************************************************************************)
(* Synthesis, lines 182-245                                                *)
(***************************************************************************)
Member(name, ty, shape) == [name |-> name, ty |-> ty, shape |-> shape]

\* mutant of FieldMember: the member of a multiple filter is not a Vec
FieldMemberNoVec(f, ty) == Member(f.name, ty, "Option<T>")

\* lines 190-197 and 221-223: the member pushed for a filter whose type ident is ty
FieldMember(f, ty) ==
    IF f.opts.multiple THEN Member(f.name, ty, "Option<Vec<T>>")
    ELSE Member(f.name, ty, "Option<T>")

Pred(op, any, wrap) == [op |-> op, any |-> any, wrap |-> wrap]

\* mutant of PredicateOf: the values of a multiple substring filter are
\* handed to any(..) as they are
PredicateOfUnwrappedAny(f) ==
    IF f.opts.multiple
    THEN CASE f.opts.kind = "Basic"             -> Pred("eq", TRUE, FALSE)
           [] f.opts.kind = "Substr"            -> Pred("like", TRUE, FALSE)
           [] f.opts.kind = "Insensitive"       -> Pred("ilike", TRUE, FALSE)
           [] f.opts.kind = "SubstrInsensitive" -> Pred("ilike", TRUE, FALSE)
    ELSE CASE f.opts.kind = "Basic"             -> Pred("eq", FALSE, FALSE)
           [] f.opts.kind = "Substr"            -> Pred("like", FALSE, TRUE)
           [] f.opts.kind = "Insensitive"       -> Pred("ilike", FALSE, FALSE)
           [] f.opts.kind = "SubstrInsensitive" -> Pred("ilike", FALSE, TRUE)

\* lines 187-238: the predicate `q`; wrap says each supplied value goes
\* through format!("%{}%", ..), any that the values go through any(..)
PredicateOf(f) ==
    IF f.opts.multiple
    THEN CASE f.opts.kind = "Basic"             -> Pred("eq", TRUE, FALSE)
           [] f.opts.kind = "Substr"            -> Pred("like", TRUE, TRUE)
           [] f.opts.kind = "Insensitive"       -> Pred("ilike", TRUE, FALSE)
           [] f.opts.kind = "SubstrInsensitive" -> Pred("ilike", TRUE, TRUE)
    ELSE CASE f.opts.kind = "Basic"             -> Pred("eq", FALSE, FALSE)
           [] f.opts.kind = "Substr"            -> Pred("like", FALSE, TRUE)
           [] f.opts.kind = "Insensitive"       -> Pred("ilike", FALSE, FALSE)
           [] f.opts.kind = "SubstrInsensitive" -> Pred("ilike", FALSE, TRUE)

\* lines 240-244
QueryBlock(f) == [field |-> f.name, q |-> PredicateOf(f)]

\* lines 250-255
PaginationMembers ==
    <<Member("page", "i64", "Option<T>"), Member("per_page", "i64", "Option<T>")>>

\* lines 281-325
Expanded(pag, members, us, table, qs) ==
    [struct   |-> members,
     filtered |-> IF pag THEN "paginate.per_page.load_and_count" ELSE "load",
     filter   |-> [uses |-> us, base |-> table, queries |-> qs]]

----------------------------------------------------------------------------
(***************************************************************************)
(* The macro expansion `filter`, lines 114-327                             *)
(***************************************************************************)
GenIdle ==
    /\ pc = "idle" /\ attrs = <<>> /\ data = "none" /\ table_name = <<>>
    /\ pagination = FALSE /\ nfields = 0 /\ annotated = FALSE /\ skipped = FALSE
    /\ filters = <<>>
    /\ fields = <<>> /\ queries = <<>> /\ has_multiple = FALSE /\ uses = <<>>
    /\ k = 0 /\ expanded = <<>> /\ outcome = "idle"

GenInit ==
    /\ pc = "table_name"
    /\ attrs \in SeqsUpTo(RecordAttrs, MaxRecAttrs)
    /\ data \in {"named", "unnamed", "enum"}
    /\ table_name = <<>>
    /\ pagination = FALSE
    /\ nfields = 0
    /\ annotated = FALSE
    /\ skipped = FALSE
    /\ filters = <<>>
    /\ fields = <<>>
    /\ queries = <<>>
    /\ has_multiple = FALSE
    /\ uses = <<>>
    /\ k = 0
    /\ expanded = <<>>
    /\ outcome = "running"

Panic(msg) == pc' = "panicked" /\ outcome' = msg

\* lines 117-126
ParseTableName ==
    /\ pc = "table_name"
    /\ UNCHANGED nonGenVars
    /\ IF FindTableName(attrs) = <<>>
       THEN /\ Panic("please provide #[diesel(table_name = ...)] attribute")
            /\ UNCHANGED table_name
       ELSE /\ table_name' = FindTableName(attrs)
            /\ pc' = "pagination"
            /\ UNCHANGED outcome
    /\ UNCHANGED <<attrs, data, pagination, nfields, annotated, skipped, filters, fields,
                   queries, has_multiple, uses, k, expanded>>

\* lines 128-133
ScanPagination ==
    /\ pc = "pagination"
    /\ UNCHANGED nonGenVars
    /\ pagination' = HasPagination(attrs)
    /\ pc' = "data"
    /\ UNCHANGED <<attrs, data, table_name, nfields, annotated, skipped, filters, fields,
                   queries, has_multiple, uses, k, expanded, outcome>>

\* lines 135-139: input is taken apart; its attributes are not read again
EnterData ==
    /\ pc = "data"
    /\ UNCHANGED nonGenVars
    /\ attrs' = <<>>
    /\ pc' = IF data = "named" THEN "fields" ELSE "check"
    /\ UNCHANGED <<data, table_name, pagination, nfields, annotated, skipped, filters, fields,
                   queries, has_multiple, uses, k, expanded, outcome>>

\* lines 140-168: one iteration of `for field in fields.named`
CollectField ==
    /\ pc = "fields"
    /\ UNCHANGED nonGenVars
    /\ nfields < MaxFields
    /\ \E ty \in FieldTypes, as \in FieldAttrLists :
          LET r == CollectAttrs(FieldNames[nfields + 1], ty, as, filters) IN
          /\ nfields' = nfields + 1
          /\ annotated' = (annotated \/ Usable(as))
          /\ skipped' = (skipped \/ Skipped(as))
          /\ IF r.panic # ""
             THEN Panic(r.panic) /\ UNCHANGED filters
             ELSE filters' = r.filters /\ UNCHANGED <<pc, outcome>>
    /\ UNCHANGED <<attrs, data, table_name, pagination, fields, queries,
                   has_multiple, uses, k, expanded>>

\* the end of fields.named
EndFields ==
    /\ pc = "fields"
    /\ UNCHANGED nonGenVars
    /\ pc' = "check"
    /\ UNCHANGED <<attrs, data, table_name, pagination, nfields, annotated, skipped, filters,
                   fields, queries, has_multiple, uses, k, expanded, outcome>>

\* lines 172-181
CheckEmpty ==
    /\ pc = "check"
    /\ UNCHANGED nonGenVars
    /\ IF filters = <<>>
       THEN /\ Panic("please annotate at least one field to filter with #[filter] on your struct")
            /\ UNCHANGED k
       ELSE /\ pc' = "synth"
            /\ k' = 1
            /\ UNCHANGED outcome
    /\ UNCHANGED <<attrs, data, table_name, pagination, nfields, annotated, skipped, filters,
                   fields, queries, has_multiple, uses, expanded>>

\* lines 182-245: one iteration of `for filter in filters`
Synthesize ==
    /\ pc = "synth"
    /\ UNCHANGED nonGenVars
    /\ k <= Len(filters)
    /\ LET f == filters[k] IN
       IF ~IdentNewOk(IdentSource(f.ty))
       THEN /\ Panic("not a valid Ident")
            /\ UNCHANGED <<fields, queries, has_multiple, k>>
       ELSE /\ fields' = Append(fields, FieldMember(f, IdentSource(f.ty)[1]))
            /\ queries' = Append(queries, QueryBlock(f))
            /\ has_multiple' = (has_multiple \/ f.opts.multiple)
            /\ k' = k + 1
            /\ UNCHANGED <<pc, outcome>>
    /\ UNCHANGED <<attrs, data, table_name, pagination, nfields, annotated, skipped, filters,
                   uses, expanded>>

\* lines 247-255
Finish ==
    /\ pc = "synth"
    /\ UNCHANGED nonGenVars
    /\ k > Len(filters)
    /\ uses' = IF has_multiple THEN <<"diesel::dsl::any">> ELSE <<>>
    /\ fields' = IF pagination THEN fields \o PaginationMembers ELSE fields
    /\ pc' = "emit"
    /\ UNCHANGED <<attrs, data, table_name, pagination, nfields, annotated, skipped, filters,
                   queries, has_multiple, k, expanded, outcome>>

\* lines 257-326
Emit ==
    /\ pc = "emit"
    /\ UNCHANGED nonGenVars
    /\ expanded' = <<Expanded(pagination, fields, uses, table_name[1], queries)>>
    /\ pc' = "done"
    /\ outcome' = "ok"
    /\ UNCHANGED <<attrs, data, table_name, pagination, nfields, annotated, skipped, filters,
                   fields, queries, has_multiple, uses, k>>

Next ==
    \/ ParseTableName
    \/ ScanPagination
    \/ EnterData
    \/ CollectField
    \/ EndFields
    \/ CheckEmpty
    \/ Synthesize
    \/ Finish
    \/ Emit

----------------------------------------------------------------------------
(***************************************************************************)
(* The generator as one function of the collected filters: the loop of     *)
(* lines 182-245 followed by lines 247-326.  Only defined when every       *)
(* filter's type converts into an Ident.                                   *)
(***************************************************************************)
Generate(fs, pag, table) ==
    LET members == [i \in 1..Len(fs) |-> FieldMember(fs[i], IdentSource(fs[i].ty)[1])]
        blocks  == [i \in 1..Len(fs) |-> QueryBlock(fs[i])]
        us      == IF \E i \in 1..Len(fs) : fs[i].opts.multiple
                   THEN <<"diesel::dsl::any">> ELSE <<>>
    IN Expanded(pag, IF pag THEN members \o PaginationMembers ELSE members, us, table, blocks)

----------------------------------------------------------------------------
(***************************************************************************)
(* Text values are sequences of characters.  The comparison operators of   *)
(* the generated predicates: eq, like (SQL LIKE: % matches any run of      *)
(* characters, _ any one character) and ilike (LIKE regardless of case).   *)
(***************************************************************************)
Alphabet == {"a", "A", "%", "_"}

Strings(n) == SeqsUpTo(Alphabet, n)

RECURSIVE LikeMatch(_, _)
LikeMatch(s, p) ==
    IF p = <<>> THEN s = <<>>
    ELSE IF Head(p) = "%"
         THEN LikeMatch(s, Tail(p)) \/ (s # <<>> /\ LikeMatch(Tail(s), p))
    ELSE IF Head(p) = "_"
         THEN s # <<>> /\ LikeMatch(Tail(s), Tail(p))
    ELSE s # <<>> /\ Head(s) = Head(p) /\ LikeMatch(Tail(s), Tail(p))

LowerChar(c) == IF c = "A" THEN "a" ELSE c

Lower(s) == [i \in 1..Len(s) |-> LowerChar(s[i])]

\* format!("%{}%", f)
FormatWrap(v) == <<"%">> \o v \o <<"%">>

Compare(op, r, pat) ==
    CASE op = "eq"    -> r = pat
      [] op = "like"  -> LikeMatch(r, pat)
      [] op = "ilike" -> LikeMatch(Lower(r), Lower(pat))

\* the predicate q of lines 198-237 on a column value r, x being the value
\* bound to `filter` (a text for a single member, a list of texts for a
\* multiple one)
EvalPred(q, r, x) ==
    IF q.any
    THEN \E i \in 1..Len(x) : Compare(q.op, r, IF q.wrap THEN FormatWrap(x[i]) ELSE x[i])
    ELSE Compare(q.op, r, IF q.wrap THEN FormatWrap(x) ELSE x)

----------------------------------------------------------------------------
(***************************************************************************)
(* Variables of the other specifications at rest                           *)
(***************************************************************************)
OptsIdle  == opc = "idle" /\ ometa = <<>> /\ oopts = <<>>
TypeIdle  == tpc = "idle" /\ tty = <<>> /\ tcat = <<>> /\ tident = <<>>
LikeIdle  == lpc = "idle" /\ lfield = <<>> /\ lvalue = <<>> /\ lpattern = <<>> /\ lresult = FALSE
QueryIdle == qpc = "idle" /\ qgen = <<>> /\ qinput = <<>> /\ qi = 0 /\ query = <<>> /\ qresult = <<>>

Init == GenInit /\ OptsIdle /\ TypeIdle /\ LikeIdle /\ QueryIdle

Spec == Init /\ [][Next]_vars

----------------------------------------------------------------------------
(***************************************************************************)
(* SpecOpts: the options of one filter attribute, lines 148-154 and 43-71  *)
(***************************************************************************)
NestedItems ==
    {Kw(w) : w \in {"multiple", "substring", "insensitive", "exact"}}
        \cup {NestedItem("lit", "multiple")}

OptsInit ==
    /\ opc = "parse_meta"
    /\ ometa \in {FilterPath, FilterNameValue}
                    \cup {FilterList(ws) : ws \in SeqsUpTo(NestedItems, MaxNested)}
    /\ oopts = <<>>

\* Meta::List(te) => FilterOpts::from(..)
OptsFromList ==
    /\ opc = "parse_meta"
    /\ UNCHANGED nonOptsVars
    /\ ometa.form = "List"
    /\ oopts' = AttrOpts(ometa)
    /\ opc' = "done"
    /\ UNCHANGED ometa

\* Meta::Path(_) => FilterOpts::default()
OptsFromPath ==
    /\ opc = "parse_meta"
    /\ UNCHANGED nonOptsVars
    /\ ometa.form = "Path"
    /\ oopts' = AttrOpts(ometa)
    /\ opc' = "done"
    /\ UNCHANGED ometa

\* _ => continue
OptsSkip ==
    /\ opc = "parse_meta"
    /\ UNCHANGED nonOptsVars
    /\ ometa.form \notin {"List", "Path"}
    /\ oopts' = AttrOpts(ometa)
    /\ opc' = "skipped"
    /\ UNCHANGED ometa

NextOpts ==
    \/ OptsFromList
    \/ OptsFromPath
    \/ OptsSkip

InitOpts == GenIdle /\ OptsInit /\ TypeIdle /\ LikeIdle /\ QueryIdle

SpecOpts == InitOpts /\ [][NextOpts]_vars

----------------------------------------------------------------------------
(***************************************************************************)
(* SpecType: FilterableType::from (lines 73-85) followed by                *)
(* Ident::from (lines 87-95), as at lines 157 and 184                      *)
(***************************************************************************)
TypeIdents == {"String", "Uuid", "uuid", "Option", "i32"}

TypeSegs == {<<a>> : a \in TypeIdents} \cup {<<a, b>> : a, b \in TypeIdents}

RECURSIVE TypesUpTo(_)
TypesUpTo(d) ==
    IF d = 0 THEN {TyPath(sg, <<>>) : sg \in TypeSegs}
    ELSE TypesUpTo(d - 1)
            \cup {TyPath(sg[1], <<sg[2]>>) : sg \in TypeSegs \X TypesUpTo(d - 1)}

TypeInit ==
    /\ tpc = "classify"
    /\ tty \in TypesUpTo(MaxDepth)
    /\ tcat = <<>>
    /\ tident = <<>>

Classify ==
    /\ tpc = "classify"
    /\ UNCHANGED nonTypeVars
    /\ tcat' = <<FilterableTypeFrom(tty)>>
    /\ tpc' = "into_ident"
    /\ UNCHANGED <<tty, tident>>

IntoIdent ==
    /\ tpc = "into_ident"
    /\ UNCHANGED nonTypeVars
    /\ IF IdentNewOk(IdentSource(tcat[1]))
       THEN tident' = IdentSource(tcat[1]) /\ tpc' = "done"
       ELSE tident' = <<>> /\ tpc' = "panicked"
    /\ UNCHANGED <<tty, tcat>>

NextType ==
    \/ Classify
    \/ IntoIdent

InitType == GenIdle /\ OptsIdle /\ TypeInit /\ LikeIdle /\ QueryIdle

SpecType == InitType /\ [][NextType]_vars

----------------------------------------------------------------------------
(***************************************************************************)
(* SpecLike: the predicate of a Single/Substring filter (line 229) on a    *)
(* column value lfield and a supplied value lvalue                         *)
(***************************************************************************)
LikeInit ==
    /\ lpc = "format"
    /\ lfield \in Strings(MaxStr)
    /\ lvalue \in Strings(MaxStr)
    /\ lpattern = <<>>
    /\ lresult = FALSE

\* format!("%{}%", filter)
LikeFormat ==
    /\ lpc = "format"
    /\ UNCHANGED nonLikeVars
    /\ lpattern' = FormatWrap(lvalue)
    /\ lpc' = "like"
    /\ UNCHANGED <<lfield, lvalue, lresult>>

\* table::field.like(..)
LikeApply ==
    /\ lpc = "like"
    /\ UNCHANGED nonLikeVars
    /\ lresult' = Compare("like", lfield, lpattern)
    /\ lpc' = "done"
    /\ UNCHANGED <<lfield, lvalue, lpattern>>

NextLike ==
    \/ LikeFormat
    \/ LikeApply

InitLike == GenIdle /\ OptsIdle /\ TypeIdle /\ LikeInit /\ QueryIdle

SpecLike == InitLike /\ [][NextLike]_vars

----------------------------------------------------------------------------
(***************************************************************************)
(* SpecQuery: the generated functions at run time.  qgen is the output of  *)
(* the macro for a record of text columns, qinput a Filter Input value:    *)
(* vals[i] is <<>> (None) or <<xs>> (Some) for the i-th member, xs being   *)
(* the list of texts supplied (of length one, the text itself, for a       *)
(* single member), and page / per_page likewise.  The table holds every    *)
(* row over RowTexts.                                                      *)
(***************************************************************************)
ColumnNames == <<"name", "tags", "email">>

ColumnIndex(c) == CHOOSE i \in 1..Len(ColumnNames) : ColumnNames[i] = c

AllOpts == [multiple : BOOLEAN, kind : FilterKind]

TextFilters(n) ==
    {[i \in 1..n |-> Filter(ColumnNames[i], Category("String", <<>>), os[i])] :
        os \in [1..n -> AllOpts]}

RowTexts == <<<<"a">>, <<"a", "A">>>>

RECURSIVE Pow(_, _)
Pow(b, e) == IF e = 0 THEN 1 ELSE b * Pow(b, e - 1)

\* the table: every row over RowTexts, one text per column, in a fixed order
Table ==
    LET w == Len(ColumnNames)
        m == Len(RowTexts)
    IN [idx \in 1..Pow(m, w) |->
           [c \in 1..w |-> RowTexts[(((idx - 1) \div Pow(m, w - c)) % m) + 1]]]

SingleInputs == {<<>>, <<<<<<"a">>>>>>, <<<<<<"A">>>>>>}
MultipleInputs == {<<>>, <<<<<<"a">>>>>>, <<<<<<"A">>, <<"a", "A">>>>>>}

MemberInputs(f) == IF f.opts.multiple THEN MultipleInputs ELSE SingleInputs

PageInputs == {<<>>, <<2>>}
PerPageInputs == {<<>>, <<1>>}

QueryInit ==
    /\ qpc = "call"
    /\ \E n \in 1..MaxMembers : \E fs \in TextFilters(n) : \E pag \in BOOLEAN :
          /\ qgen = Generate(fs, pag, "users")
          /\ \E vs \in [1..n -> SingleInputs \cup MultipleInputs] :
                /\ \A i \in 1..n : vs[i] \in MemberInputs(fs[i])
                /\ \E pg \in PageInputs, pp \in PerPageInputs :
                      /\ ~pag => (pg = <<>> /\ pp = <<>>)
                      /\ qinput = [vals |-> vs, page |-> pg, per_page |-> pp]
    /\ qi = 0
    /\ query = <<>>
    /\ qresult = <<>>

\* filters.#field
MemberValue(gen, input, field) ==
    input.vals[CHOOSE i \in 1..Len(gen.struct) : gen.struct[i].name = field]

\* mutant of AttachBlock: the predicate is put in front of those attached before
AttachBlockFront(q, block, member) ==
    IF member = <<>> THEN q
    ELSE [q EXCEPT !.preds = <<[field |-> block.field, q |-> block.q,
                                value |-> member[1]]>> \o @]

\* lines 241-243: if let Some(ref filter) = filters.#field { query = query.filter(#q) }
AttachBlock(q, block, member) ==
    IF member = <<>> THEN q
    ELSE [q EXCEPT !.preds = Append(@, [field |-> block.field, q |-> block.q,
                                        value |-> member[1]])]

\* what `filter` is bound to inside a block: the text of a single member,
\* the list of a multiple one
Bound(q, xs) == IF q.any THEN xs ELSE xs[1]

\* the rows of the table a boxed query selects: those on which every
\* attached predicate holds
Load(q) ==
    SelectSeq(Table,
              LAMBDA row : \A i \in 1..Len(q.preds) :
                  EvalPred(q.preds[i].q, row[ColumnIndex(q.preds[i].field)],
                           Bound(q.preds[i].q, q.preds[i].value)))

DefaultPerPage == 10

\* .paginate(page).per_page(per_page).load_and_count(conn): the rows of the
\* requested page and the number of all rows the query selects
LoadAndCount(q, page, per_page) ==
    LET all  == Load(q)
        pg   == IF page = <<>> THEN 1 ELSE page[1]
        size == IF per_page = <<>> THEN DefaultPerPage ELSE per_page[1]
        from == (pg - 1) * size
        to   == IF from + size < Len(all) THEN from + size ELSE Len(all)
    IN [rows |-> SubSeq(all, from + 1, to), count |-> <<Len(all)>>]

\* mutant of Filtered: the paginated branch starts from the table, not from
\* the query `filter` built
FilteredFromTable(gen, q, input) ==
    IF gen.filtered = "load"
    THEN [rows |-> Load(q), count |-> <<>>]
    ELSE LoadAndCount([q EXCEPT !.preds = <<>>], input.page, input.per_page)

\* lines 287-292 and 310-312: what `filtered` does with the query `filter` built
Filtered(gen, q, input) ==
    IF gen.filtered = "load"
    THEN [rows |-> Load(q), count |-> <<>>]
    ELSE LoadAndCount(q, input.page, input.per_page)

\* line 296 / 316
QueryBase ==
    /\ qpc = "call"
    /\ UNCHANGED nonQueryVars
    /\ query' = [table |-> qgen.filter.base, preds |-> <<>>]
    /\ qi' = 1
    /\ qpc' = "attach"
    /\ UNCHANGED <<qgen, qinput, qresult>>

\* line 298 / 318: the next of the blocks of lines 240-244
QueryAttach ==
    /\ qpc = "attach"
    /\ UNCHANGED nonQueryVars
    /\ qi <= Len(qgen.filter.queries)
    /\ query' = AttachBlock(query, qgen.filter.queries[qi],
                            MemberValue(qgen, qinput, qgen.filter.queries[qi].field))
    /\ qi' = qi + 1
    /\ UNCHANGED <<qgen, qinput, qpc, qresult>>

\* line 300 / 320
QueryReturn ==
    /\ qpc = "attach"
    /\ UNCHANGED nonQueryVars
    /\ qi > Len(qgen.filter.queries)
    /\ qpc' = "built"
    /\ UNCHANGED <<qgen, qinput, qi, query, qresult>>

\* lines 288-291 / 311
FilteredExecute ==
    /\ qpc = "built"
    /\ UNCHANGED nonQueryVars
    /\ qresult' = <<Filtered(qgen, query, qinput)>>
    /\ qpc' = "done"
    /\ UNCHANGED <<qgen, qinput, qi, query>>

NextQuery ==
    \/ QueryBase
    \/ QueryAttach
    \/ QueryReturn
    \/ FilteredExecute

InitQuery == GenIdle /\ OptsIdle /\ TypeIdle /\ LikeIdle /\ QueryInit

SpecQuery == InitQuery /\ [][NextQuery]_vars

----------------------------------------------------------------------------
(***************************************************************************)
(* Properties of the macro expansion (Spec)                                *)
(***************************************************************************)
TableNameMsg == "please provide #[diesel(table_name = ...)] attribute"
NoFilterMsg == "please annotate at least one field to filter with #[filter] on your struct"

NameIndex(n) == CHOOSE i \in 1..Len(FieldNames) : FieldNames[i] = n

\* the value type of a member, from the value category of its field
ValueType(cat) ==
    IF cat.tag = "String" THEN "String"
    ELSE IF cat.tag = "Uuid" THEN "Uuid"
    ELSE cat.raw[1]

\* C1: once the macro has emitted its output, the Filter Input struct has
\* one member per collected Filter Field, with the field's name and in
\* declaration order, Option<T> for a single and Option<Vec<T>> for a
\* multiple filter, T being the value type of the field's category, and
\* then the members page and per_page (Option<i64>) exactly when the record
\* carries a pagination attribute.
C1_StructShape ==
    /\ pc = "data" => (pagination <=> \E i \in 1..Len(attrs) : attrs[i].path = "pagination")
    /\ pc = "done" =>
         LET members == expanded[1].struct
             n == Len(filters)
         IN /\ n >= 1
            /\ Len(members) = n + (IF pagination THEN 2 ELSE 0)
            /\ \A i \in 1..n :
                  /\ members[i].name = filters[i].name
                  /\ members[i].ty = ValueType(filters[i].ty)
                  /\ members[i].shape =
                        (IF filters[i].opts.multiple THEN "Option<Vec<T>>" ELSE "Option<T>")
            /\ \A i, j \in 1..n :
                  i < j => NameIndex(filters[i].name) <= NameIndex(filters[j].name)
            /\ pagination =>
                  /\ members[n + 1] = [name |-> "page", ty |-> "i64", shape |-> "Option<T>"]
                  /\ members[n + 2] = [name |-> "per_page", ty |-> "i64", shape |-> "Option<T>"]
            /\ members = Generate(filters, pagination, table_name[1]).struct

C1_Witness ==
    /\ pc = "done" /\ pagination /\ Len(filters) = 2
    /\ filters[1].opts.multiple /\ ~filters[2].opts.multiple
    /\ filters[1].ty.tag = "Foreign" /\ filters[2].ty.tag = "Uuid"
    /\ filters[1].name # filters[2].name

\* the table of section 4.3: operator, whether ANY of a list of values is
\* asked for, and whether each supplied value is wrapped in wildcards
PredicateTable(multiple, kind) ==
    [op   |-> CASE kind = "Basic" -> "eq"
                [] kind = "Substr" -> "like"
                [] kind = "Insensitive" -> "ilike"
                [] kind = "SubstrInsensitive" -> "ilike",
     any  |-> multiple,
     wrap |-> kind \in {"Substr", "SubstrInsensitive"}]

SampleTexts == {<<"a">>, <<"A">>, <<"a", "A">>}
SampleLists == {<<>>, <<<<"a">>>>, <<<<"A">>, <<"a", "A">>>>}

C7_NoFilterFieldAborts ==
    (table_name # <<>> /\ ~annotated /\ pc \notin {"pagination", "data", "fields", "check"})
        => /\ pc = "panicked"
           /\ outcome = NoFilterMsg
           /\ filters = <<>> /\ fields = <<>> /\ queries = <<>> /\ expanded = <<>>

C7_Witness ==
    /\ pc = "panicked" /\ outcome = NoFilterMsg
    /\ data = "named" /\ nfields = 2 /\ skipped /\ ~annotated

\* a record-level attribute that is exactly diesel(table_name = <identifier>)
IsTableNameAttr(a) ==
    /\ a.path = "diesel"
    /\ Len(a.args) = 3
    /\ a.args[1] = "table_name" /\ a.args[2] = "=" /\ a.args[3] \notin Punct

\* C8: when no record-level attribute is diesel(table_name = <identifier>),
\* the expansion ends in the missing-table-name panic before any field is
\* iterated and with nothing emitted; with such an attribute it never ends
\* in that panic.
C8_MissingTableNameAborts ==
    /\ (pc # "table_name" /\ table_name = <<>>) =>
          /\ pc = "panicked" /\ outcome = TableNameMsg
          /\ \A i \in 1..Len(attrs) : ~IsTableNameAttr(attrs[i])
          /\ nfields = 0 /\ ~annotated /\ filters = <<>> /\ fields = <<>> /\ expanded = <<>>
    /\ (pc # "table_name" /\ table_name # <<>>) =>
          /\ outcome # TableNameMsg
          /\ pc \in {"pagination", "data"} => \E i \in 1..Len(attrs) : IsTableNameAttr(attrs[i])
    /\ (pc = "table_name" /\ \A i \in 1..Len(attrs) : ~IsTableNameAttr(attrs[i]))
          => FindTableName(attrs) = <<>>

C8_Witness ==
    /\ pc = "panicked" /\ outcome = TableNameMsg
    /\ data = "named" /\ Len(attrs) = 2
    /\ attrs[1].path = "diesel" /\ attrs[2].path = "pagination"

\* C10 as claimed: the members of an emitted Filter Input struct have
\* pairwise different names.
C10_UniqueMemberNames ==
    pc = "done" =>
        \A i, j \in 1..Len(expanded[1].struct) :
            i # j => expanded[1].struct[i].name # expanded[1].struct[j].name

----------------------------------------------------------------------------
(***************************************************************************)
(* Properties of FilterOpts::from (SpecOpts)                               *)
(***************************************************************************)
\* the keywords present in a list of nested items
Keywords(ws) == {ws[i].ident : i \in {j \in 1..Len(ws) : ws[j].kind = "meta"}}

\* C4: the options of a filter attribute are a function of the set of
\* keywords present: multiple iff "multiple" is there; the kind from
\* "substring" and "insensitive" alone; other keywords, order and
\* repetition change nothing and nothing fails; a bare marker gives
\* {single, basic}.
C4_OptsFromKeywordSet ==
    /\ opc # "parse_meta" =>
          (opc = "done" <=> ometa.form \in {"List", "Path"})
    /\ (opc = "done" /\ ometa.form = "Path") =>
          oopts = <<[multiple |-> FALSE, kind |-> "Basic"]>>
    /\ (opc = "done" /\ ometa.form = "List") =>
          LET ks == Keywords(ometa.nested)
              sub == "substring" \in ks
              ins == "insensitive" \in ks
          IN /\ Len(oopts) = 1
             /\ oopts[1].multiple = ("multiple" \in ks)
             /\ oopts[1].kind = (IF sub /\ ins THEN "SubstrInsensitive"
                                 ELSE IF sub THEN "Substr"
                                 ELSE IF ins THEN "Insensitive"
                                 ELSE "Basic")

C4_Witness ==
    /\ opc = "done"
    /\ ometa.nested = <<Kw("insensitive"), Kw("exact"), Kw("substring")>>
    /\ oopts = <<[multiple |-> FALSE, kind |-> "SubstrInsensitive"]>>

----------------------------------------------------------------------------
(***************************************************************************)
(* Properties of the type classification (SpecType)                        *)
(***************************************************************************)
IsOptionOf(ty) == ty.segs = <<"Option">> /\ Len(ty.args) = 1

IsTextOrUuidName(ty) ==
    ty.args = <<>> /\ ty.segs \in {<<"String">>, <<"Uuid">>, <<"uuid", "Uuid">>}

\* C9 as claimed: classification never fails, Option<T> classifies as T
\* does (Foreign carrying T's own name), every name that is not the text or
\* the UUID type is Foreign, and the conversion of the category into the
\* member's value type never aborts.
C9_ClassifyModuloOption ==
    /\ tpc # "panicked"
    /\ tpc \in {"into_ident", "done"} =>
          /\ IsOptionOf(tty) => tcat[1] = FilterableTypeFrom(tty.args[1])
          /\ (~IsOptionOf(tty) /\ ~IsTextOrUuidName(tty)) => tcat[1].tag = "Foreign"

----------------------------------------------------------------------------
(***************************************************************************)
(* Properties of the substring predicate (SpecLike)                        *)
(***************************************************************************)
\* v occurs in s as a contiguous run of characters
Contains(s, v) ==
    \E i \in 0..(Len(s) - Len(v)) : SubSeq(s, i + 1, i + Len(v)) = v

\* C5 as claimed: the Single/Substring predicate holds exactly when the
\* supplied value occurs, case-sensitively, inside the column value.
C5_SubstringIffContains ==
    lpc = "done" => (lresult <=> Contains(lfield, lvalue))

----------------------------------------------------------------------------
(***************************************************************************)
(* Properties of the generated functions (SpecQuery)                       *)
(***************************************************************************)
\* the filters whose member is present in the input, in declaration order
RECURSIVE PresentFrom(_, _, _)
PresentFrom(gen, input, i) ==
    IF i > Len(gen.filter.queries) THEN <<>>
    ELSE (IF input.vals[i] = <<>> THEN <<>>
          ELSE <<[field |-> ColumnNames[i], q |-> gen.filter.queries[i].q,
                  value |-> input.vals[i][1]]>>)
         \o PresentFrom(gen, input, i + 1)

\* C2: the query `filter` returns is the unfiltered query on the table plus
\* one predicate for each member that is present, none for an absent one,
\* in declaration order, all of them conjoined; with every member absent
\* it is the unfiltered query.
C2_QueryAssembly ==
    /\ qpc # "call" => query.table = "users"
    /\ qpc \in {"built", "done"} =>
          /\ query.preds = PresentFrom(qgen, qinput, 1)
          /\ (\A i \in 1..Len(qinput.vals) : qinput.vals[i] = <<>>)
                => query = [table |-> "users", preds |-> <<>>]
    /\ qpc = "built" =>
          LET selected == Range(Load(query)) IN
             \A r \in Range(Table) :
                r \in selected <=>
                   \A i \in 1..Len(qinput.vals) :
                      qinput.vals[i] # <<>> =>
                         EvalPred(qgen.filter.queries[i].q, r[i],
                                  Bound(qgen.filter.queries[i].q, qinput.vals[i][1]))

C2_Witness ==
    /\ qpc = "built" /\ Len(qinput.vals) = 2
    /\ qinput.vals[1] = <<>> /\ qinput.vals[2] # <<>>
    /\ Len(query.preds) = 1 /\ query.preds[1].field = "tags"

\* the rows of the table on which the predicate of every present member holds
Matching(gen, input) ==
    SelectSeq(Table,
              LAMBDA r : \A i \in 1..Len(input.vals) :
                  input.vals[i] # <<>> =>
                      EvalPred(gen.filter.queries[i].q, r[i],
                               Bound(gen.filter.queries[i].q, input.vals[i][1])))

\* C6: with pagination, `filtered` returns a page of the rows the query of
\* `filter` selects together with the number of all rows satisfying the
\* predicates of the present members, whatever page and per_page are;
\* without pagination it returns all those rows.
C6_FilteredResult ==
    qpc = "done" =>
        LET m == Matching(qgen, qinput)
            res == qresult[1]
        IN IF qgen.filtered = "load"
           THEN res.rows = m /\ res.count = <<>>
           ELSE /\ res.count = <<Len(m)>>
                /\ \E off \in 0..Len(m) :
                      /\ off + Len(res.rows) <= Len(m)
                      /\ res.rows = SubSeq(m, off + 1, off + Len(res.rows))
                /\ qinput.per_page # <<>> => Len(res.rows) <= qinput.per_page[1]

C6_Witness ==
    /\ qpc = "done" /\ qgen.filtered # "load"
    /\ qinput.page = <<2>> /\ qinput.per_page = <<1>>
    /\ Len(query.preds) = 1
    /\ qresult[1].count = <<4>> /\ Len(qresult[1].rows) = 1

====
